---- MODULE Spec2Model ----
(***************************************************************************)
(* Model of sempy_labs: _connections.py, _dataflows.py,                    *)
(* _one_lake_integration.py and _vertipaq_bulk.py.                         *)
(*                                                                         *)
(* One invocation runs at a time (the library is sequential).  The single  *)
(* request operations are one action each; export_model_to_onelake and     *)
(* vertipaq_analyzer_bulk, which loop, are one action per step.  The       *)
(* server's answers, the caller's arguments and the state of the           *)
(* lakehouse are inputs, drawn from small sets.                            *)
(*                                                                         *)
(* Python values are modelled as strings ("None", "True", "False", "NaN"), *)
(* JSON objects as functions from keys to values, lists as sequences.      *)
(***************************************************************************)
EXTENDS Integers, Sequences, FiniteSets, TLC

VARIABLES
    op,         \* the operation of the current (or last finished) invocation
    pc,         \* position inside the invocation; "idle" between invocations
    args,       \* the arguments of the invocation
    http,       \* requests issued by the invocation, in order, with the status received
    sent,       \* JSON bodies of the POSTs issued by the invocation, in order
    printed,    \* messages printed by the invocation, in order
    created,    \* remote mutations the server carried out for the invocation
    result,     \* "none" while running, then "returned" or "raised"
    exc,        \* the exception raised, "none" otherwise
    pages,      \* list operations: the pages the server holds for the collection
    df,         \* the dataframe built (list operations: the one returned)
    tIdx,       \* export_model_to_onelake: index of the table the loop is at
    lake,       \* the lakehouse table vertipaq_analyzer_model (persists)
    tagged,     \* RunIds tagged on rows by earlier bulk invocations (history)
    runId,      \* vertipaq_analyzer_bulk: runId (0 before it is computed)
    dfW_filt,   \* vertipaq_analyzer_bulk: the selected workspaces
    wIdx,       \* vertipaq_analyzer_bulk: index of the workspace the loop is at
    dfD_filt,   \* vertipaq_analyzer_bulk: the datasets of the workspace left to analyse
    dIdx,       \* vertipaq_analyzer_bulk: index of the dataset the loop is at
    frames,     \* vertipaq_analyzer_bulk: the frames tagged so far (lines 112-121)
    analysed    \* vertipaq_analyzer_bulk: (workspace, dataset) vertipaq_analyzer was called on

localsRest == <<op, pc, args, http, sent, printed, created, result, exc, pages, df, tIdx>>

localsBulk == <<runId, dfW_filt, wIdx, dfD_filt, dIdx, frames, analysed>>

persisted == <<lake, tagged>>

vars == <<localsRest, localsBulk, persisted>>

\* ------------------------------------------------------------------ bounds

MaxPages == 3       \* pages of a paginated collection
MaxDocLen == 2      \* characters of a mashup document
MaxTables == 2      \* tables of a semantic model
MaxWorkspaces == 2  \* workspaces the caller has access to

\* ------------------------------------------------------------ environment

\* Status codes the server may answer with.
StatusCodes == {200, 201, 202, 404}

\* dict.get(key, default)
Get(d, k, default) == IF k \in DOMAIN d THEN d[k] ELSE default

\* bool(d) of a dict
Truthy(d) == DOMAIN d # {}

EmptyDict == <<>>

RECURSIVE SeqsUpTo(_, _)
SeqsUpTo(S, n) ==
    IF n = 0 THEN {<<>>}
    ELSE LET shorter == SeqsUpTo(S, n - 1)
         IN shorter \cup {Append(s, x) : s \in shorter, x \in S}

\* What the server documents as the success status of each mutate request
\* (the status with which it has carried the mutation out).
ServerSuccessCode(kind) ==
    CASE kind = "create_connection" -> 201
      [] kind = "add_role_assignment" -> 201
      [] kind = "delete_connection" -> 200
      [] kind = "create_item" -> 200
      [] kind = "create_shortcut" -> 201

\* ------------------------------------------------------------- dataframes

\* pd.DataFrame(columns=cols)
DataFrame(cols) == [columns |-> cols, rows |-> <<>>]

NoDf == DataFrame(<<>>)

InSeq(x, s) == \E i \in 1..Len(s) : s[i] = x

\* pd.concat([df, pd.DataFrame(new_data, index=[0])], ignore_index=True):
\* the columns are df's, then new_data's keys that df lacks, in key order;
\* a cell with no value is NaN.
concat_row(d, keys, new_data) ==
    LET extra == SelectSeq(keys, LAMBDA k : ~InSeq(k, d.columns))
        cols == d.columns \o extra
        colset == {cols[i] : i \in 1..Len(cols)}
        widen(r) == [c \in colset |-> IF c \in DOMAIN r THEN r[c] ELSE "NaN"]
    IN [columns |-> cols,
        rows |-> Append([i \in 1..Len(d.rows) |-> widen(d.rows[i])],
                        widen(new_data))]

\* df[cols] = df[cols].astype(bool): None -> False, NaN -> True
astype_bool(d, col) ==
    LET conv(v) == IF v \in {"None", "False"} THEN "False" ELSE "True"
    IN [d EXCEPT !.rows =
           [i \in 1..Len(d.rows) |->
               [c \in DOMAIN d.rows[i] |->
                   IF c = col THEN conv(d.rows[i][c]) ELSE d.rows[i][c]]]]

\* --------------------------------------------------------- external helpers

\* Connections the server knows, by display name.
KnownConnections == [Conn1 |-> "c1"]

\* sempy_labs._helper_functions.resolve_connection_id: looks the name up among
\* the server's connections (one GET) and fails when there is none of that name.
resolve_connection_id(connection_name) ==
    [request |-> [method |-> "GET", path |-> "/v1/connections", status |-> 200],
     found |-> connection_name \in DOMAIN KnownConnections,
     id |-> Get(KnownConnections, connection_name, "None")]

\* The response body of page k: its items, and a continuation token unless last.
ResponseJson(pgs, k) ==
    IF k < Len(pgs)
    THEN [value |-> pgs[k], continuationToken |-> "next"]
    ELSE [value |-> pgs[k]]

\* sempy_labs._helper_functions.pagination: the first response, then one GET per
\* continuation token until a response carries none; returns every response body.
pagination(first, pgs) ==
    [responses |-> [k \in 1..Len(pgs) |-> ResponseJson(pgs, k)],
     requests |-> [k \in 1..(Len(pgs) - 1) |->
                      [method |-> "GET", path |-> first.path, status |-> 200]]]

\* ---------------------------------------------------------- _connections.py

principal_types == {"Group", "ServicePrincipal", "ServicePrincipalProfile", "User"}

connection_roles == {"Owner", "User", "UserWithReshare"}

\* Connection items the server may hold.
ConnectionPool ==
    { [id |-> "c1", displayName |-> "Conn1", connectivityType |-> "ShareableCloud",
       connectionDetails |-> [path |-> "srv;db", type |-> "SQL"],
       privacyLevel |-> "Organizational",
       credentialDetails |-> [credentialType |-> "Basic", singleSignOnType |-> "None",
                              connectionEncryption |-> "NotEncrypted",
                              skipTestConnection |-> "True"]],
      [id |-> "c2", displayName |-> "Conn2", gatewayId |-> "g1",
       connectivityType |-> "OnPremisesGateway", privacyLevel |-> "None"] }

\* Role assignment items the server may hold.
RoleAssignmentPool ==
    { [id |-> "ra1", principal |-> [id |-> "u1", type |-> "User"], role |-> "Owner"],
      [id |-> "ra2", principal |-> [id |-> "g1", type |-> "Group"], role |-> "User"] }

\* Every item of `pool` once, in one fixed order.
WholePool(pool) ==
    CHOOSE s \in [1..Cardinality(pool) -> pool] : {s[i] : i \in DOMAIN s} = pool

\* What one page may hold: nothing, one item, or every item.
PageContents(pool) == {<<>>} \cup {<<x>> : x \in pool} \cup {WholePool(pool)}

\* The pages a server may split a collection of items from `pool` into.
PageSeqs(pool) == SeqsUpTo(PageContents(pool), MaxPages) \ {<<>>}

\* list_connections: the columns the dataframe is created with.
connection_columns ==
    << "Connection Id", "Connection Name", "Gateway Id", "Connectivity Type",
       "Connection Path", "Connection Type", "Privacy Level", "Credential Type",
       "Single Sign on Type", "Connection Encyrption", "Skip Test Connection" >>

\* list_connections: the keys of new_data, in order.
connection_keys ==
    << "Connection Id", "Connection Name", "Gateway Id", "Connectivity Type",
       "Connection Path", "Connection Type", "Privacy Level", "Credential Type",
       "Single Sign On Type", "Connection Encryption", "Skip Test Connection" >>

\* list_connections: new_data of one item.
connection_new_data(i) ==
    LET connection_details == Get(i, "connectionDetails", EmptyDict)
        credential_details == Get(i, "credentialDetails", EmptyDict)
        cred(k) == IF Truthy(credential_details)
                   THEN Get(credential_details, k, "None") ELSE "None"
    IN [k \in {connection_keys[j] : j \in 1..Len(connection_keys)} |->
          CASE k = "Connection Id" -> Get(i, "id", "None")
            [] k = "Connection Name" -> Get(i, "displayName", "None")
            [] k = "Gateway Id" -> Get(i, "gatewayId", "None")
            [] k = "Connectivity Type" -> Get(i, "connectivityType", "None")
            [] k = "Connection Path" -> Get(connection_details, "path", "None")
            [] k = "Connection Type" -> Get(connection_details, "type", "None")
            [] k = "Privacy Level" -> Get(i, "privacyLevel", "None")
            [] k = "Credential Type" -> cred("credentialType")
            [] k = "Single Sign On Type" -> cred("singleSignOnType")
            [] k = "Connection Encryption" -> cred("connectionEncryption")
            [] k = "Skip Test Connection" -> cred("skipTestConnection")]

RECURSIVE concat_rows(_, _, _)
concat_rows(d, keys, rows) ==
    IF rows = <<>> THEN d
    ELSE concat_rows(concat_row(d, keys, Head(rows)), keys, Tail(rows))

\* list_connections: the dataframe built from the response to the one GET.
list_connections_df(response_json) ==
    LET value == Get(response_json, "value", <<>>)
        rows == [j \in 1..Len(value) |-> connection_new_data(value[j])]
    IN astype_bool(concat_rows(DataFrame(connection_columns), connection_keys, rows),
                   "Skip Test Connection")

\* list_connection_role_assignments: the columns the dataframe is created with.
role_assignment_columns ==
    << "Connection Role Assignment Id", "Principal Id", "Principal Type", "Role" >>

\* list_connection_role_assignments: the keys of new_data, in order.
role_assignment_keys ==
    << "Connection Role Assignment Id", "Principal Id", "Princiapl Type", "Role" >>

\* list_connection_role_assignments: new_data of one item.
role_assignment_new_data(v) ==
    [k \in {role_assignment_keys[j] : j \in 1..Len(role_assignment_keys)} |->
        CASE k = "Connection Role Assignment Id" -> Get(v, "id", "None")
          [] k = "Principal Id" -> Get(Get(v, "princiapl", EmptyDict), "id", "None")
          [] k = "Princiapl Type" -> Get(Get(v, "principal", EmptyDict), "type", "None")
          [] k = "Role" -> Get(v, "role", "None")]

\* The concatenation of a sequence of sequences (by halves, to keep recursion shallow).
RECURSIVE Flatten(_)
Flatten(ss) ==
    IF Len(ss) = 0 THEN <<>>
    ELSE IF Len(ss) = 1 THEN ss[1]
    ELSE LET mid == Len(ss) \div 2
         IN Flatten(SubSeq(ss, 1, mid)) \o Flatten(SubSeq(ss, mid + 1, Len(ss)))

\* list_connection_role_assignments: the dataframe built from all responses.
list_connection_role_assignments_df(responses) ==
    LET values == Flatten([k \in 1..Len(responses) |->
                              Get(responses[k], "value", <<>>)])
        rows == [j \in 1..Len(values) |-> role_assignment_new_data(values[j])]
    IN concat_rows(DataFrame(role_assignment_columns), role_assignment_keys, rows)

\* ------------------------------------------------------------ invocations

NoExc == [type |-> "none"]

\* An invocation begins: its locals are fresh.
Begin(name, a) ==
    /\ pc = "idle"
    /\ op' = name
    /\ args' = a

\* The operations of _connections.py, _dataflows.py and _one_lake_integration.py
\* touch neither the bulk analysis' locals nor the lakehouse table.
NoBulk == UNCHANGED <<localsBulk, persisted>>

\* The invocation ends by returning / by raising e.
Return == result' = "returned" /\ exc' = NoExc /\ pc' = "done"

Raise(e) == result' = "raised" /\ exc' = e /\ pc' = "done"

FabricHTTPException(response) == [type |-> "FabricHTTPException", status |-> response.status]

\* Variants of raises_for_status: any 2xx status passes; the status is compared with 200
\* whatever the operation expects.
raises_unless_2xx(response, expected) == response.status < 200 \/ response.status > 299

raises_unless_200(response, expected) == response.status # 200

\* `if response.status_code != <expected>: raise FabricHTTPException(response)`
raises_for_status(response, expected) == response.status # expected

\* The server carries a mutate request out when it answers with the documented status.
Carried(kind, st) == IF st = ServerSuccessCode(kind) THEN <<kind>> ELSE <<>>

NoList == pages' = <<>> /\ df' = NoDf

NoExport == tIdx' = 0

\* list_connections()
list_connections ==
    \E st \in StatusCodes, pgs \in PageSeqs(ConnectionPool) :
      LET response == [method |-> "GET", path |-> "/v1/connections", status |-> st]
      IN /\ Begin("list_connections", EmptyDict)
         /\ NoBulk /\ NoExport
         /\ pages' = pgs
         /\ http' = <<response>>
         /\ sent' = <<>> /\ printed' = <<>> /\ created' = <<>>
         /\ IF raises_for_status(response, 200)
            THEN Raise(FabricHTTPException(response)) /\ df' = NoDf
            ELSE Return /\ df' = list_connections_df(ResponseJson(pgs, 1))

\* list_connection_role_assignments(connection_name)
list_connection_role_assignments ==
    \E connection_name \in {"Conn1", "Missing"}, st \in StatusCodes,
       pgs \in PageSeqs(RoleAssignmentPool) :
      LET resolved == resolve_connection_id(connection_name)
          response == [method |-> "GET", path |-> "/v1/connections/{id}/roleAssignments",
                       status |-> st]
          paged == pagination(response, pgs)
      IN /\ Begin("list_connection_role_assignments",
                  [connection_name |-> connection_name])
         /\ NoBulk /\ NoExport
         /\ pages' = pgs
         /\ sent' = <<>> /\ printed' = <<>> /\ created' = <<>>
         /\ IF ~resolved.found
            THEN /\ http' = <<resolved.request>>
                 /\ Raise([type |-> "ResolveError", value |-> connection_name])
                 /\ df' = NoDf
            ELSE IF raises_for_status(response, 200)
            THEN /\ http' = <<resolved.request, response>>
                 /\ Raise(FabricHTTPException(response))
                 /\ df' = NoDf
            ELSE /\ http' = <<resolved.request, response>> \o paged.requests
                 /\ Return
                 /\ df' = list_connection_role_assignments_df(paged.responses)

\* Variant of connection_details_body: the two parameter values swapped.
connection_details_body_swapped(a) ==
    [type |-> "SQL",
     parameters |-> << [name |-> "server", value |-> a.database_name],
                       [name |-> "database", value |-> a.server_name] >>]

\* connectionDetails of the three create-connection request bodies
connection_details_body(a) ==
    [type |-> "SQL",
     parameters |-> << [name |-> "server", value |-> a.server_name],
                       [name |-> "database", value |-> a.database_name] >>]

\* create_connection_cloud: request_body
cloud_request_body(a) ==
    [connectivityType |-> a.connectivity_type,
     name |-> a.connection_name,
     connectionDetails |-> connection_details_body(a),
     privacyLevel |-> a.privacy_level,
     credentialDetails |->
        [singleSignOnType |-> a.single_sign_on_type,
         connectionEncryption |-> a.encryption,
         skipTestConnection |-> FALSE,
         credentials |-> [credentialType |-> a.credential_type,
                          username |-> a.user_name,
                          password |-> a.password]]]

\* create_connection_on_prem: request_body
on_prem_request_body(a) ==
    [connectivityType |-> a.connectivity_type,
     gatewayId |-> a.gateway_id,
     name |-> a.connection_name,
     connectionDetails |-> connection_details_body(a),
     privacyLevel |-> a.privacy_level,
     credentialDetails |->
        [singleSignOnType |-> a.single_sign_on_type,
         connectionEncryption |-> a.encryption,
         skipTestConnection |-> FALSE,
         credentials |-> [credentialType |-> a.credential_type,
                          values |-> << [gatewayId |-> a.gateway_id,
                                         credentials |-> a.credentials] >>]]]

\* create_connection_vnet: request_body
vnet_request_body(a) ==
    [connectivityType |-> a.connectivity_type,
     gatewayId |-> a.gateway_id,
     name |-> a.connection_name,
     connectionDetails |-> connection_details_body(a),
     privacyLevel |-> a.privacy_level,
     credentialDetails |->
        [singleSignOnType |-> a.single_sign_on_type,
         connectionEncryption |-> a.encryption,
         skipTestConnection |-> FALSE,
         credentials |-> [credentialType |-> a.credential_type,
                          username |-> a.user_name,
                          password |-> a.password]]]

\* The arguments the three create-connection functions share; an optional
\* argument the caller leaves out takes the default of the signature.
CommonConnectionArgs(default_connectivity_type) ==
    [connection_name : {"Conn1", "Conn2"},
     server_name : {"srv"},
     database_name : {"db"},
     credential_type : {"Basic", "Bogus"},
     privacy_level : {"Organizational", "Private"},
     connectivity_type : {default_connectivity_type, "Bogus"},
     single_sign_on_type : {"None", "Kerberos"},
     encryption : {"Encyrpted"}]

\* a @@ b for records
Merge(a, b) ==
    [k \in DOMAIN a \cup DOMAIN b |-> IF k \in DOMAIN a THEN a[k] ELSE b[k]]

\* client.post("/v1/connections", json=request_body), then the status check
post_connection(request_body) ==
    \E st \in StatusCodes :
      LET response == [method |-> "POST", path |-> "/v1/connections", status |-> st]
      IN /\ NoBulk /\ NoExport
         /\ NoList
         /\ http' = <<response>>
         /\ sent' = <<request_body>>
         /\ printed' = <<>>
         /\ created' = Carried("create_connection", st)
         /\ IF raises_for_status(response, 201)
            THEN Raise(FabricHTTPException(response))
            ELSE Return

\* create_connection_cloud(connection_name, server_name, database_name, ...)
create_connection_cloud ==
    \E c \in CommonConnectionArgs("ShareableCloud") :
      LET a == Merge(c, [user_name |-> "usr", password |-> "pwd"])
      IN /\ Begin("create_connection_cloud", a)
         /\ post_connection(cloud_request_body(a))

\* create_connection_on_prem(connection_name, gateway_id, server_name, ...)
create_connection_on_prem ==
    \E c \in CommonConnectionArgs("OnPremisesDataGateway") :
      LET a == Merge(c, [gateway_id |-> "g1", credentials |-> "enc"])
      IN /\ Begin("create_connection_on_prem", a)
         /\ post_connection(on_prem_request_body(a))

\* create_connection_vnet(connection_name, gateway_id, server_name, ...)
create_connection_vnet ==
    \E c \in CommonConnectionArgs("VirtualNetworkDataGateway") :
      LET a == Merge(c, [gateway_id |-> "g1", user_name |-> "usr", password |-> "pwd"])
      IN /\ Begin("create_connection_vnet", a)
         /\ post_connection(vnet_request_body(a))

\* add_connection_role_assignemnt: payload
role_assignment_payload(a) ==
    [principal |-> [id |-> a.email_address, type |-> a.principal_type],
     role |-> a.role]

\* add_connection_role_assignemnt(connection_name, email_address, principal_type, role)
\* The POST passes its body as payload=, a keyword the REST client may reject
\* (TypeError) before anything is sent: both outcomes are modelled.
add_connection_role_assignemnt ==
    \E connection_name \in {"Conn1", "Missing"}, principal_type \in {"User", "Group", "Admin"},
       role \in {"Owner", "Reader"}, st \in StatusCodes, keyword_accepted \in BOOLEAN :
      LET a == [connection_name |-> connection_name, email_address |-> "u@x",
                principal_type |-> principal_type, role |-> role]
          resolved == resolve_connection_id(a.connection_name)
          response == [method |-> "POST", path |-> "/v1/connections/{id}/roleAssignments",
                       status |-> st]
      IN /\ Begin("add_connection_role_assignemnt", a)
         /\ NoBulk /\ NoExport
         /\ NoList
         /\ IF ~resolved.found
            THEN /\ http' = <<resolved.request>>
                 /\ sent' = <<>> /\ printed' = <<>> /\ created' = <<>>
                 /\ Raise([type |-> "ResolveError", value |-> a.connection_name])
            ELSE IF a.principal_type \notin principal_types
            THEN /\ http' = <<resolved.request>>
                 /\ sent' = <<>> /\ printed' = <<>> /\ created' = <<>>
                 /\ Raise([type |-> "ValueError", value |-> a.principal_type])
            ELSE IF a.role \notin connection_roles
            THEN /\ http' = <<resolved.request>>
                 /\ sent' = <<>> /\ printed' = <<>> /\ created' = <<>>
                 /\ Raise([type |-> "ValueError", value |-> a.role])
            ELSE IF ~keyword_accepted
            THEN /\ http' = <<resolved.request>>
                 /\ sent' = <<>> /\ printed' = <<>> /\ created' = <<>>
                 /\ Raise([type |-> "TypeError", value |-> "payload"])
            ELSE /\ http' = <<resolved.request, response>>
                 /\ sent' = <<role_assignment_payload(a)>>
                 /\ created' = Carried("add_role_assignment", st)
                 /\ IF raises_for_status(response, 201)
                    THEN Raise(FabricHTTPException(response)) /\ printed' = <<>>
                    ELSE Return /\ printed' = <<[msg |-> "role_added"]>>

\* delete_connection(connection_name)
delete_connection ==
    \E connection_name \in {"Conn1", "Missing"}, st \in StatusCodes :
      LET resolved == resolve_connection_id(connection_name)
          response == [method |-> "DELETE", path |-> "/v1/connections/{id}", status |-> st]
      IN /\ Begin("delete_connection", [connection_name |-> connection_name])
         /\ NoBulk /\ NoExport
         /\ NoList
         /\ sent' = <<>>
         /\ IF ~resolved.found
            THEN /\ http' = <<resolved.request>>
                 /\ printed' = <<>> /\ created' = <<>>
                 /\ Raise([type |-> "ResolveError", value |-> connection_name])
            ELSE /\ http' = <<resolved.request, response>>
                 /\ created' = Carried("delete_connection", st)
                 /\ IF raises_for_status(response, 200)
                    THEN Raise(FabricHTTPException(response)) /\ printed' = <<>>
                    ELSE Return /\ printed' = <<[msg |-> "connection_deleted"]>>

\* ------------------------------------------------------------- _dataflows.py
\* Text that is serialised is a sequence of Unicode code points; bytes and
\* base64 characters are sequences of numbers.

\* The code points of the string literals of create_dataflow's envelope
\* (and of JSON's three literals).
TextTable ==
    "editingSessionMashup" :> << 101, 100, 105, 116, 105, 110, 103, 83, 101, 115, 115, 105, 111, 110, 77, 97, 115, 104, 117, 112 >> @@
    "mashupName" :> << 109, 97, 115, 104, 117, 112, 78, 97, 109, 101 >> @@
    "mashupDocument" :> << 109, 97, 115, 104, 117, 112, 68, 111, 99, 117, 109, 101, 110, 116 >> @@
    "queryGroups" :> << 113, 117, 101, 114, 121, 71, 114, 111, 117, 112, 115 >> @@
    "documentLocale" :> << 100, 111, 99, 117, 109, 101, 110, 116, 76, 111, 99, 97, 108, 101 >> @@
    "gatewayObjectId" :> << 103, 97, 116, 101, 119, 97, 121, 79, 98, 106, 101, 99, 116, 73, 100 >> @@
    "queriesMetadata" :> << 113, 117, 101, 114, 105, 101, 115, 77, 101, 116, 97, 100, 97, 116, 97 >> @@
    "connectionOverrides" :> << 99, 111, 110, 110, 101, 99, 116, 105, 111, 110, 79, 118, 101, 114, 114, 105, 100, 101, 115 >> @@
    "trustedConnections" :> << 116, 114, 117, 115, 116, 101, 100, 67, 111, 110, 110, 101, 99, 116, 105, 111, 110, 115 >> @@
    "useHostConnectionProvider" :> << 117, 115, 101, 72, 111, 115, 116, 67, 111, 110, 110, 101, 99, 116, 105, 111, 110, 80, 114, 111, 118, 105, 100, 101, 114 >> @@
    "fastCombine" :> << 102, 97, 115, 116, 67, 111, 109, 98, 105, 110, 101 >> @@
    "allowNativeQueries" :> << 97, 108, 108, 111, 119, 78, 97, 116, 105, 118, 101, 81, 117, 101, 114, 105, 101, 115 >> @@
    "allowedModules" :> << 97, 108, 108, 111, 119, 101, 100, 77, 111, 100, 117, 108, 101, 115 >> @@
    "skipAutomaticTypeAndHeaderDetection" :> << 115, 107, 105, 112, 65, 117, 116, 111, 109, 97, 116, 105, 99, 84, 121, 112, 101, 65, 110, 100, 72, 101, 97, 100, 101, 114, 68, 101, 116, 101, 99, 116, 105, 111, 110 >> @@
    "disableAutoAnonymousConnectionUpsert" :> << 100, 105, 115, 97, 98, 108, 101, 65, 117, 116, 111, 65, 110, 111, 110, 121, 109, 111, 117, 115, 67, 111, 110, 110, 101, 99, 116, 105, 111, 110, 85, 112, 115, 101, 114, 116 >> @@
    "hostProperties" :> << 104, 111, 115, 116, 80, 114, 111, 112, 101, 114, 116, 105, 101, 115 >> @@
    "DataflowRefreshOutpuFileFormat" :> << 68, 97, 116, 97, 102, 108, 111, 119, 82, 101, 102, 114, 101, 115, 104, 79, 117, 116, 112, 117, 70, 105, 108, 101, 70, 111, 114, 109, 97, 116 >> @@
    "EnableDataTimeFieldsForStaging" :> << 69, 110, 97, 98, 108, 101, 68, 97, 116, 97, 84, 105, 109, 101, 70, 105, 101, 108, 100, 115, 70, 111, 114, 83, 116, 97, 103, 105, 110, 103 >> @@
    "EnablePublishWithoutLoadedQueries" :> << 69, 110, 97, 98, 108, 101, 80, 117, 98, 108, 105, 115, 104, 87, 105, 116, 104, 111, 117, 116, 76, 111, 97, 100, 101, 100, 81, 117, 101, 114, 105, 101, 115 >> @@
    "defaultOutputDestinationConfiguration" :> << 100, 101, 102, 97, 117, 108, 116, 79, 117, 116, 112, 117, 116, 68, 101, 115, 116, 105, 110, 97, 116, 105, 111, 110, 67, 111, 110, 102, 105, 103, 117, 114, 97, 116, 105, 111, 110 >> @@
    "stagingDefinition" :> << 115, 116, 97, 103, 105, 110, 103, 68, 101, 102, 105, 110, 105, 116, 105, 111, 110 >> @@
    "en-US" :> << 101, 110, 45, 85, 83 >> @@
    "Parquet" :> << 80, 97, 114, 113, 117, 101, 116 >> @@
    "true" :> << 116, 114, 117, 101 >> @@
    "false" :> << 102, 97, 108, 115, 101 >> @@
    "null" :> << 110, 117, 108, 108 >>

Text(s) == IF s = "" THEN <<>> ELSE TextTable[s]

\* JSON values: Python's str, None, bool, list and dict (keys in insertion order).
JStr(s) == [t |-> "str", v |-> s]
JNull == [t |-> "null", v |-> <<>>]
JBool(b) == [t |-> "bool", v |-> b]
JList(xs) == [t |-> "list", v |-> xs]
JObj(members) == [t |-> "obj", v |-> members]

\* Variant of dataflow_def_payload: the document under the neighbouring key.
dataflow_def_payload_misplaced(mashup_document) ==
    JObj(<< << Text("editingSessionMashup"), JObj(<<
        << Text("mashupName"), JStr(mashup_document) >>,
        << Text("mashupDocument"), JStr(Text("")) >>,
        << Text("queryGroups"), JList(<<>>) >>,
        << Text("documentLocale"), JStr(Text("en-US")) >>,
        << Text("gatewayObjectId"), JNull >>,
        << Text("queriesMetadata"), JNull >>,
        << Text("connectionOverrides"), JList(<<>>) >>,
        << Text("trustedConnections"), JNull >>,
        << Text("useHostConnectionProvider"), JBool(FALSE) >>,
        << Text("fastCombine"), JBool(FALSE) >>,
        << Text("allowNativeQueries"), JBool(TRUE) >>,
        << Text("allowedModules"), JNull >>,
        << Text("skipAutomaticTypeAndHeaderDetection"), JBool(FALSE) >>,
        << Text("disableAutoAnonymousConnectionUpsert"), JNull >>,
        << Text("hostProperties"), JObj(<<
            << Text("DataflowRefreshOutpuFileFormat"), JStr(Text("Parquet")) >>,
            << Text("EnableDataTimeFieldsForStaging"), JBool(TRUE) >>,
            << Text("EnablePublishWithoutLoadedQueries"), JBool(TRUE) >> >>) >>,
        << Text("defaultOutputDestinationConfiguration"), JNull >>,
        << Text("stagingDefinition"), JNull >> >>) >> >>)

\* create_dataflow: dataflow_def_payload
dataflow_def_payload(mashup_document) ==
    JObj(<< << Text("editingSessionMashup"), JObj(<<
        << Text("mashupName"), JStr(Text("")) >>,
        << Text("mashupDocument"), JStr(mashup_document) >>,
        << Text("queryGroups"), JList(<<>>) >>,
        << Text("documentLocale"), JStr(Text("en-US")) >>,
        << Text("gatewayObjectId"), JNull >>,
        << Text("queriesMetadata"), JNull >>,
        << Text("connectionOverrides"), JList(<<>>) >>,
        << Text("trustedConnections"), JNull >>,
        << Text("useHostConnectionProvider"), JBool(FALSE) >>,
        << Text("fastCombine"), JBool(FALSE) >>,
        << Text("allowNativeQueries"), JBool(TRUE) >>,
        << Text("allowedModules"), JNull >>,
        << Text("skipAutomaticTypeAndHeaderDetection"), JBool(FALSE) >>,
        << Text("disableAutoAnonymousConnectionUpsert"), JNull >>,
        << Text("hostProperties"), JObj(<<
            << Text("DataflowRefreshOutpuFileFormat"), JStr(Text("Parquet")) >>,
            << Text("EnableDataTimeFieldsForStaging"), JBool(TRUE) >>,
            << Text("EnablePublishWithoutLoadedQueries"), JBool(TRUE) >> >>) >>,
        << Text("defaultOutputDestinationConfiguration"), JNull >>,
        << Text("stagingDefinition"), JNull >> >>) >> >>)

HexDigit(n) == IF n < 10 THEN 48 + n ELSE 87 + n

\* \uXXXX of a 16 bit unit
UEscape(u) ==
    << 92, 117, HexDigit(u \div 4096), HexDigit((u \div 256) % 16),
       HexDigit((u \div 16) % 16), HexDigit(u % 16) >>

\* json.dumps (ensure_ascii): one character of a string
EscapeChar(c) ==
    CASE c = 34 -> << 92, 34 >>
      [] c = 92 -> << 92, 92 >>
      [] c = 10 -> << 92, 110 >>
      [] c = 13 -> << 92, 114 >>
      [] c = 9 -> << 92, 116 >>
      [] c = 8 -> << 92, 98 >>
      [] c = 12 -> << 92, 102 >>
      [] c >= 65536 -> UEscape(55296 + ((c - 65536) \div 1024))
                       \o UEscape(56320 + ((c - 65536) % 1024))
      [] c < 32 \/ c > 126 -> UEscape(c)
      [] OTHER -> << c >>

\* json.dumps of a string
DumpsStr(s) == << 34 >> \o Flatten([i \in 1..Len(s) |-> EscapeChar(s[i])]) \o << 34 >>

\* ", ".join(parts)
Join(parts) ==
    Flatten([i \in 1..Len(parts) |->
                IF i = 1 THEN parts[i] ELSE << 44, 32 >> \o parts[i]])

\* json.dumps with its default separators
RECURSIVE Dumps(_)
Dumps(x) ==
    CASE x.t = "str" -> DumpsStr(x.v)
      [] x.t = "null" -> Text("null")
      [] x.t = "bool" -> IF x.v THEN Text("true") ELSE Text("false")
      [] x.t = "list" ->
            << 91 >> \o Join([i \in 1..Len(x.v) |-> Dumps(x.v[i])]) \o << 93 >>
      [] x.t = "obj" ->
            << 123 >>
            \o Join([i \in 1..Len(x.v) |->
                        DumpsStr(x.v[i][1]) \o << 58, 32 >> \o Dumps(x.v[i][2])])
            \o << 125 >>

\* str.encode("utf-8"): one code point
Utf8Char(c) ==
    IF c < 128 THEN << c >>
    ELSE IF c < 2048 THEN << 192 + (c \div 64), 128 + (c % 64) >>
    ELSE IF c < 65536
    THEN << 224 + (c \div 4096), 128 + ((c \div 64) % 64), 128 + (c % 64) >>
    ELSE << 240 + (c \div 262144), 128 + ((c \div 4096) % 64),
            128 + ((c \div 64) % 64), 128 + (c % 64) >>

Utf8Encode(s) == Flatten([i \in 1..Len(s) |-> Utf8Char(s[i])])

\* The base64 alphabet, then '=' for padding.
B64Char(n) ==
    IF n < 26 THEN 65 + n
    ELSE IF n < 52 THEN 97 + (n - 26)
    ELSE IF n < 62 THEN 48 + (n - 52)
    ELSE IF n = 62 THEN 43 ELSE 47

\* base64.b64encode(bytes).decode("utf-8")
b64encode(bytes) ==
    LET n == Len(bytes)
        at(i) == IF i <= n THEN bytes[i] ELSE 0
        group(g) == at(3 * g + 1) * 65536 + at(3 * g + 2) * 256 + at(3 * g + 3)
        char(j) ==
            LET g == (j - 1) \div 4
                k == (j - 1) % 4
                sextet == CASE k = 0 -> group(g) \div 262144
                            [] k = 1 -> (group(g) \div 4096) % 64
                            [] k = 2 -> (group(g) \div 64) % 64
                            [] k = 3 -> group(g) % 64
            IN IF (k = 2 /\ 3 * g + 2 > n) \/ (k = 3 /\ 3 * g + 3 > n)
               THEN 61 ELSE B64Char(sextet)
    IN [j \in 1..(4 * ((n + 2) \div 3)) |-> char(j)]

\* sempy_labs._helper_functions._conv_b64: the object serialised to JSON text,
\* the text to UTF-8 bytes, the bytes to base64 text.
conv_b64(file) == b64encode(Utf8Encode(Dumps(file)))

\* Mashup documents a caller may pass: up to MaxDocLen characters out of
\* 'a', '"', '\', e-acute (U+00E9) and an emoji outside the BMP (U+1F600).
DocChars == {97, 34, 92, 233, 128512}

Docs == SeqsUpTo(DocChars, MaxDocLen)

\* create_dataflow: payload
dataflow_payload(a) ==
    LET payload == [displayName |-> a.dataflow_name, type |-> "Dataflow"]
        described == IF a.description # "None"
                     THEN Merge(payload, [description |-> a.description])
                     ELSE payload
        dataflow_def_payload_conv == conv_b64(dataflow_def_payload(a.mashup_document))
    IN Merge(described,
             [definition |->
                [parts |-> << [path |-> "dataflow-content.json",
                               payload |-> dataflow_def_payload_conv] >>]])

\* create_dataflow(dataflow_name, mashup_document, description, workspace)
\* (resolve_workspace_name_and_id is an external resolver that does not go
\* through this REST client.)
create_dataflow ==
    \E mashup_document \in Docs, description \in {"None", "desc"}, st \in StatusCodes :
      LET a == [dataflow_name |-> "df1", mashup_document |-> mashup_document,
                description |-> description, workspace |-> "None"]
          response == [method |-> "POST", path |-> "/v1/workspaces/{workspace_id}/items",
                       status |-> st]
      IN /\ Begin("create_dataflow", a)
         /\ NoBulk /\ NoExport
         /\ NoList
         /\ http' = <<response>>
         /\ sent' = <<dataflow_payload(a)>>
         /\ created' = Carried("create_item", st)
         /\ IF raises_for_status(response, 200)
            THEN Raise(FabricHTTPException(response)) /\ printed' = <<>>
            ELSE Return /\ printed' = <<[msg |-> "dataflow_created"]>>

\* ------------------------------------------------- _one_lake_integration.py

\* Tables a semantic model may hold (tom.model.Tables), with what the loop reads:
\* CalculationGroup, SystemManaged, whether every partition is in Import mode,
\* Columns.Count; NoSpaces is Name.replace(" ", "").
TablePool ==
    { [Name |-> "Sales", NoSpaces |-> "Sales", CalculationGroup |-> "None",
       SystemManaged |-> FALSE, AllImport |-> TRUE, Columns |-> 2],
      [Name |-> "Dim Date", NoSpaces |-> "DimDate", CalculationGroup |-> "None",
       SystemManaged |-> FALSE, AllImport |-> TRUE, Columns |-> 1],
      [Name |-> "Time Intelligence", NoSpaces |-> "TimeIntelligence",
       CalculationGroup |-> "cg", SystemManaged |-> FALSE, AllImport |-> TRUE,
       Columns |-> 2],
      [Name |-> "Orders", NoSpaces |-> "Orders", CalculationGroup |-> "None",
       SystemManaged |-> FALSE, AllImport |-> FALSE, Columns |-> 3],
      [Name |-> "DateTableTemplate", NoSpaces |-> "DateTableTemplate",
       CalculationGroup |-> "None", SystemManaged |-> TRUE, AllImport |-> TRUE,
       Columns |-> 2],
      [Name |-> "Empty", NoSpaces |-> "Empty", CalculationGroup |-> "None",
       SystemManaged |-> FALSE, AllImport |-> TRUE, Columns |-> 0] }

\* Variant of shortcut_condition: the test of the partitions' mode left out.
shortcut_condition_any_mode(t) ==
    /\ t.CalculationGroup = "None"
    /\ t.SystemManaged = FALSE
    /\ t.Columns > 0

\* export_model_to_onelake: the condition under which a table gets a shortcut
shortcut_condition(t) ==
    /\ t.CalculationGroup = "None"
    /\ t.SystemManaged = FALSE
    /\ t.AllImport
    /\ t.Columns > 0

\* export_model_to_onelake: request_body of a table's shortcut
shortcut_request_body(t) ==
    [path |-> "Tables",
     name |-> t.NoSpaces,
     target |-> [oneLake |-> [workspaceId |-> "workspace_id",
                              itemId |-> "sourceLakehouseId",
                              path |-> <<"Tables", t.Name>>]]]

\* export_model_to_onelake(dataset, workspace, destination_lakehouse,
\* destination_workspace, create_shortcuts), up to the loop over the tables:
\* the TMSL export (which the engine may refuse), its confirmation, and the
\* destination lakehouse.
export_model_to_onelake ==
    \E create_shortcuts \in BOOLEAN, destination_lakehouse \in {"None", "LH"},
       lakehouse_attached \in BOOLEAN, tmsl_ok \in BOOLEAN,
       tables \in SeqsUpTo(TablePool, MaxTables) :
      /\ Begin("export_model_to_onelake",
               [dataset |-> "Model", create_shortcuts |-> create_shortcuts,
                destination_lakehouse |-> destination_lakehouse,
                lakehouse_attached |-> lakehouse_attached, tables |-> tables])
      /\ NoBulk /\ NoList
      /\ http' = <<>> /\ sent' = <<>>
      /\ IF ~tmsl_ok
         THEN /\ created' = <<>> /\ printed' = <<>> /\ tIdx' = 0
              /\ Raise([type |-> "TmslError", value |-> "Model"])
         ELSE /\ created' = <<"delta_export">>
              /\ printed' = <<[msg |-> "exported"]>>
              /\ IF ~create_shortcuts
                 THEN Return /\ tIdx' = 0
                 ELSE IF destination_lakehouse = "None" /\ ~lakehouse_attached
                 THEN /\ Raise([type |-> "ValueError", value |-> "lakehouse"])
                      /\ tIdx' = 0
                 ELSE /\ pc' = "shortcuts"
                      /\ tIdx' = 1
                      /\ result' = "none" /\ exc' = NoExc

\* export_model_to_onelake: one iteration of `for t in tom.model.Tables`
create_shortcut ==
    /\ op = "export_model_to_onelake" /\ pc = "shortcuts"
    /\ tIdx <= Len(args.tables)
    /\ UNCHANGED <<op, args, pages, df>>
    /\ NoBulk
    /\ LET t == args.tables[tIdx]
       IN IF ~shortcut_condition(t)
          THEN /\ tIdx' = tIdx + 1
               /\ UNCHANGED <<pc, http, sent, printed, created, result, exc>>
          ELSE \E st \in StatusCodes :
                 LET response == [method |-> "POST",
                                  path |-> "/v1/workspaces/{id}/items/{id}/shortcuts",
                                  status |-> st]
                 IN /\ http' = Append(http, response)
                    /\ sent' = Append(sent, shortcut_request_body(t))
                    /\ created' = created \o Carried("create_shortcut", st)
                    /\ IF raises_for_status(response, 201)
                       THEN /\ Raise(FabricHTTPException(response))
                            /\ UNCHANGED <<printed, tIdx>>
                       ELSE /\ printed' = Append(printed, [msg |-> "shortcut_created"])
                            /\ tIdx' = tIdx + 1
                            /\ UNCHANGED <<pc, result, exc>>

\* export_model_to_onelake: the loop is over, the function returns
export_return ==
    /\ op = "export_model_to_onelake" /\ pc = "shortcuts"
    /\ tIdx > Len(args.tables)
    /\ Return
    /\ UNCHANGED <<op, args, http, sent, printed, created, pages, df, tIdx>>
    /\ NoBulk

\* ---------------------------------------------------------- _vertipaq_bulk.py

\* sempy_labs._icons.model_bpa_name
model_bpa_name == "ModelBPA"

\* Workspaces the caller may have access to: fabric.list_datasets (datasets) and
\* fabric.list_items (items, as <<Display Name, Type>>) of each.
WorkspacePool ==
    { [Name |-> "WsA", Id |-> "a",
       datasets |-> <<"X", "Y", "ModelBPA">>,
       items |-> { <<"X", "SemanticModel">>, <<"Y", "SemanticModel">>,
                   <<"Y", "Lakehouse">>, <<"ModelBPA", "SemanticModel">> }],
      [Name |-> "WsB", Id |-> "b",
       datasets |-> <<"Z", "X", "V">>,
       items |-> { <<"Z", "SemanticModel">>, <<"Z", "Warehouse">>,
                   <<"X", "SemanticModel">>, <<"V", "SemanticModel">>,
                   <<"V", "Report">>, <<"L", "Lakehouse">>, <<"L", "Warehouse">> }],
      [Name |-> "WsC", Id |-> "c",
       datasets |-> <<"Y">>,
       items |-> { <<"Y", "SemanticModel">>, <<"Y", "Lakehouse">> }],
      [Name |-> "WsD", Id |-> "d",
       datasets |-> <<>>,
       items |-> { <<"L", "Lakehouse">> }] }

\* fabric.list_workspaces(): up to MaxWorkspaces workspaces, each once.
WorkspaceLists ==
    { ws \in SeqsUpTo(WorkspacePool, MaxWorkspaces) :
        \A i, j \in 1..Len(ws) : i # j => ws[i] # ws[j] }

\* The workspace argument: None, one name, or a list of names.
WorkspaceArgs ==
    { [given |-> FALSE, names |-> {}],
      [given |-> TRUE, names |-> {"WsA"}],
      [given |-> TRUE, names |-> {"WsB", "WsC"}],
      [given |-> TRUE, names |-> {"Other"}] }

\* States of the table vertipaq_analyzer_model before the first invocation:
\* absent, or present with the RunId of each of its rows.
LakePool ==
    { [exists |-> FALSE, rows |-> <<>>],
      [exists |-> TRUE, rows |-> <<>>],
      [exists |-> TRUE, rows |-> <<1>>],
      [exists |-> TRUE, rows |-> <<3, 7, 7>>],
      [exists |-> TRUE, rows |-> <<7, 3>>] }

\* vertipaq_analyzer_bulk: cols
cols ==
    << "Capacity Name", "Capacity Id", "Workspace Name", "Workspace Id",
       "Dataset Name", "Dataset Id", "Configured By" >>

\* F.max("RunId") over the rows of the table
RECURSIVE MaxOf(_)
MaxOf(rows) ==
    IF Len(rows) = 1 THEN rows[1]
    ELSE LET m == MaxOf(Tail(rows)) IN IF rows[1] > m THEN rows[1] ELSE m

\* Variant of run_id: the number of rows instead of the largest RunId.
run_id_count(t) ==
    IF ~t.exists THEN 1 ELSE Len(t.rows) + 1

\* vertipaq_analyzer_bulk: runId, given the table (None when it has no row)
run_id(t) ==
    IF ~t.exists THEN 1
    ELSE LET maxRunId == MaxOf(t.rows) IN maxRunId + 1

\* vertipaq_analyzer_bulk: dfW_filt
filter_workspaces(dfW, workspace) ==
    IF ~workspace.given THEN dfW
    ELSE SelectSeq(dfW, LAMBDA r : r.Name \in workspace.names)

\* Variant of default_semantic_models: the Warehouse test left out.
default_semantic_models_lakehouse_only(dfI) ==
    LET names == {i[1] : i \in dfI}
        types(n) == {i[2] : i \in {j \in dfI : j[1] = n}}
    IN {n \in names : {"Lakehouse", "SemanticModel"} \subseteq types(n)}

\* vertipaq_analyzer_bulk: default_semantic_models, from dfI grouped by Display Name
default_semantic_models(dfI) ==
    LET names == {i[1] : i \in dfI}
        types(n) == {i[2] : i \in {j \in dfI : j[1] = n}}
    IN {n \in names : \/ {"Warehouse", "SemanticModel"} \subseteq types(n)
                      \/ {"Lakehouse", "SemanticModel"} \subseteq types(n)}

\* vertipaq_analyzer_bulk: skip_models
skip_models(dfI) == default_semantic_models(dfI) \cup {model_bpa_name}

\* vertipaq_analyzer_bulk: dfD_filt
filter_datasets(dfD, dfI) == SelectSeq(dfD, LAMBDA d : d \notin skip_models(dfI))

InBulk(at) == op = "vertipaq_analyzer_bulk" /\ pc = at

BulkKeeps == UNCHANGED <<op, args, http, sent, created, pages, tIdx, persisted>>

\* The workspace loop moves on: to the next workspace, or past the loop.
NextWorkspace ==
    IF wIdx < Len(dfW_filt)
    THEN wIdx' = wIdx + 1 /\ pc' = "EnumerateDatasets"
    ELSE wIdx' = wIdx /\ pc' = "Complete"

\* vertipaq_analyzer_bulk(workspace, read_stats_from_data): the call, up to the
\* lakehouse check.
vertipaq_analyzer_bulk ==
    \E workspace \in WorkspaceArgs, lakehouse_attached \in BOOLEAN,
       dfW \in WorkspaceLists :
      /\ Begin("vertipaq_analyzer_bulk",
               [workspace |-> workspace, lakehouse_attached |-> lakehouse_attached,
                dfW |-> dfW])
      /\ NoList /\ NoExport
      /\ http' = <<>> /\ sent' = <<>> /\ printed' = <<>> /\ created' = <<>>
      /\ UNCHANGED <<localsBulk, persisted>>
      /\ IF ~lakehouse_attached
         THEN Raise([type |-> "ValueError", value |-> "lakehouse"])
         ELSE pc' = "DetermineRunId" /\ result' = "none" /\ exc' = NoExc

\* lines 58-66
DetermineRunId ==
    /\ InBulk("DetermineRunId")
    /\ BulkKeeps
    /\ UNCHANGED <<printed, df, dfW_filt, wIdx, dfD_filt, dIdx, frames, analysed>>
    /\ IF lake.exists /\ lake.rows = <<>>
       THEN Raise([type |-> "TypeError", value |-> "maxRunId"]) /\ UNCHANGED runId
       ELSE /\ runId' = run_id(lake)
            /\ pc' = "EnumerateWorkspaces"
            /\ UNCHANGED <<result, exc>>

\* lines 68-75
EnumerateWorkspaces ==
    /\ InBulk("EnumerateWorkspaces")
    /\ BulkKeeps
    /\ UNCHANGED <<printed, df, runId, dfD_filt, dIdx, frames, analysed, result, exc>>
    /\ dfW_filt' = filter_workspaces(args.dfW, args.workspace)
    /\ IF dfW_filt' # <<>>
       THEN wIdx' = 1 /\ pc' = "EnumerateDatasets"
       ELSE wIdx' = 0 /\ pc' = "Complete"

\* lines 78-85
EnumerateDatasets ==
    /\ InBulk("EnumerateDatasets")
    /\ BulkKeeps
    /\ UNCHANGED <<printed, runId, dfW_filt, frames, analysed, result, exc>>
    /\ df' = DataFrame(cols)
    /\ dfD_filt' = <<>>
    /\ dIdx' = 0
    /\ IF Len(dfW_filt[wIdx].datasets) > 0
       THEN pc' = "FilterDefaultModels" /\ wIdx' = wIdx
       ELSE NextWorkspace

\* lines 86-96
FilterDefaultModels ==
    /\ InBulk("FilterDefaultModels")
    /\ BulkKeeps
    /\ UNCHANGED <<printed, df, runId, dfW_filt, frames, analysed, result, exc>>
    /\ dfD_filt' = filter_datasets(dfW_filt[wIdx].datasets, dfW_filt[wIdx].items)
    /\ IF Len(dfD_filt') > 0
       THEN pc' = "AnalyzeEachDataset" /\ dIdx' = 1 /\ wIdx' = wIdx
       ELSE dIdx' = 0 /\ NextWorkspace

\* lines 97-134, one iteration of the loop over dfD_filt.  vertipaq_analyzer either
\* raises or returns its frames; the first of them is tagged (lines 113-121), then
\* z = z[cols] drops RunId and line 124 raises KeyError, so line 126 is not reached
\* (and would raise NameError: bpa_df).  Either exception is caught at line 130.
AnalyzeEachDataset ==
    /\ InBulk("AnalyzeEachDataset")
    /\ BulkKeeps
    /\ UNCHANGED <<df, runId, dfW_filt, wIdx, dfD_filt, result, exc>>
    /\ \E analyzer \in {"returns", "raises"} :
         LET r == dfW_filt[wIdx]
             dataset_name == dfD_filt[dIdx]
             z == [Workspace |-> r.Name, Dataset |-> dataset_name, RunId |-> runId]
         IN /\ analysed' = Append(analysed, <<r.Name, dataset_name>>)
            /\ frames' = IF analyzer = "returns" THEN Append(frames, z) ELSE frames
            /\ printed' = printed \o
                 << [msg |-> "collecting", dataset |-> dataset_name, workspace |-> r.Name],
                    [msg |-> "failed", dataset |-> dataset_name, workspace |-> r.Name] >>
    /\ IF dIdx < Len(dfD_filt)
       THEN dIdx' = dIdx + 1 /\ pc' = pc
       ELSE dIdx' = dIdx /\ pc' = "AppendResults"

\* lines 136-150.  df never received a row, so it has the columns of cols only and
\* df["Severity"] raises KeyError; with a Severity column the message of line 140
\* would raise NameError (output_table).  save_as_delta_table is not reached.
AppendResults ==
    /\ InBulk("AppendResults")
    /\ BulkKeeps
    /\ UNCHANGED <<printed, df, localsBulk>>
    /\ IF ~InSeq("Severity", df.columns)
       THEN Raise([type |-> "KeyError", value |-> "Severity"])
       ELSE Raise([type |-> "NameError", value |-> "output_table"])

\* line 152
Complete ==
    /\ InBulk("Complete")
    /\ BulkKeeps
    /\ UNCHANGED <<df, localsBulk>>
    /\ printed' = Append(printed, [msg |-> "scan_complete"])
    /\ Return

\* ------------------------------------------------------------ specification

InitLocals ==
    /\ op = "none"
    /\ pc = "idle"
    /\ args = EmptyDict
    /\ http = <<>>
    /\ sent = <<>>
    /\ printed = <<>>
    /\ created = <<>>
    /\ result = "none"
    /\ exc = NoExc
    /\ pages = <<>>
    /\ df = NoDf
    /\ tIdx = 0
    /\ runId = 0
    /\ dfW_filt = <<>>
    /\ wIdx = 0
    /\ dfD_filt = <<>>
    /\ dIdx = 0
    /\ frames = <<>>
    /\ analysed = <<>>

\* No lakehouse table yet.
Init ==
    /\ InitLocals
    /\ lake = [exists |-> FALSE, rows |-> <<>>]
    /\ tagged = {}

\* The finished invocation's locals and output are gone; the next call starts afresh.
NextInvocation ==
    /\ pc = "done"
    /\ op' = "none"
    /\ pc' = "idle"
    /\ args' = EmptyDict
    /\ http' = <<>>
    /\ sent' = <<>>
    /\ printed' = <<>>
    /\ created' = <<>>
    /\ result' = "none"
    /\ exc' = NoExc
    /\ pages' = <<>>
    /\ df' = NoDf
    /\ tIdx' = 0
    /\ runId' = 0
    /\ dfW_filt' = <<>>
    /\ wIdx' = 0
    /\ dfD_filt' = <<>>
    /\ dIdx' = 0
    /\ frames' = <<>>
    /\ analysed' = <<>>
    /\ tagged' = tagged \cup {frames[i].RunId : i \in 1..Len(frames)}
    /\ UNCHANGED lake

Next ==
    \/ list_connections
    \/ list_connection_role_assignments
    \/ create_connection_cloud
    \/ create_connection_on_prem
    \/ create_connection_vnet
    \/ add_connection_role_assignemnt
    \/ delete_connection
    \/ create_dataflow
    \/ export_model_to_onelake
    \/ create_shortcut
    \/ export_return
    \/ NextInvocation

Spec == Init /\ [][Next]_vars

\* The bulk analysis, against a lakehouse whose table is in any state of LakePool.
InitBulk ==
    /\ InitLocals
    /\ lake \in LakePool
    /\ tagged = {}

NextBulk ==
    \/ vertipaq_analyzer_bulk
    \/ DetermineRunId
    \/ EnumerateWorkspaces
    \/ EnumerateDatasets
    \/ FilterDefaultModels
    \/ AnalyzeEachDataset
    \/ AppendResults
    \/ Complete
    \/ NextInvocation

SpecBulk == InitBulk /\ [][NextBulk]_vars

\* Every operation.
NextAll == Next \/ NextBulk

SpecAll == InitBulk /\ [][NextAll]_vars

\* A step of the running vertipaq_analyzer_bulk invocation.
BulkStep ==
    \/ DetermineRunId
    \/ EnumerateWorkspaces
    \/ EnumerateDatasets
    \/ FilterDefaultModels
    \/ AnalyzeEachDataset
    \/ AppendResults
    \/ Complete

\* The bulk analysis where a started invocation keeps running: the interpreter
\* executes the function's next statement as long as there is one.
FairBulk == SpecBulk /\ WF_vars(BulkStep)

\* ------------------------------------------------------------------ claims

CreateConnectionOps ==
    {"create_connection_cloud", "create_connection_on_prem", "create_connection_vnet"}

ListOps == {"list_connections", "list_connection_role_assignments"}

MutateOps ==
    CreateConnectionOps \cup {"add_connection_role_assignemnt", "delete_connection",
                              "create_dataflow", "export_model_to_onelake"}

\* The responses to the requests that create or delete something.
MutateResponses == SelectSeq(http, LAMBDA r : r.method \in {"POST", "DELETE"})

\* The success status the specification documents for each operation.
DocumentedSuccess(o) ==
    CASE o \in CreateConnectionOps -> 201
      [] o = "add_connection_role_assignemnt" -> 201
      [] o = "delete_connection" -> 200
      [] o = "create_dataflow" -> 200
      [] o = "export_model_to_onelake" -> 201

\* The success confirmations printed so far.
Confirmations ==
    SelectSeq(printed, LAMBDA m : m.msg \in {"role_added", "connection_deleted",
                                             "dataflow_created", "shortcut_created",
                                             "exported", "scan_complete"})

RequestConfirmations ==
    SelectSeq(printed, LAMBDA m : m.msg \in {"role_added", "connection_deleted",
                                             "dataflow_created", "shortcut_created"})

Finished == pc = "done"

\* C1: add_connection_role_assignemnt called with a principal_type outside
\* principal_types or a role outside connection_roles fails with a ValueError
\* naming the offending value, and no HTTP request at all has been issued.
C1_ValidationBeforeAnyRequest ==
    (/\ op = "add_connection_role_assignemnt"
     /\ Finished
     /\ \/ args.principal_type \notin {"User", "Group", "ServicePrincipal",
                                       "ServicePrincipalProfile"}
        \/ args.role \notin {"User", "UserWithReshare", "Owner"})
    => /\ result = "raised"
       /\ exc.type = "ValueError"
       /\ exc.value \in {args.principal_type, args.role}
       /\ http = <<>>

\* C2: a mutate operation counts a request as successful only when the response
\* carries the one status documented for it.  Any other status, other 2xx
\* included, ends the invocation at once with a FabricHTTPException carrying that
\* response, without a confirmation for the request; every confirmation printed
\* answers a response with the documented status, and a single-request
\* operation that returns has received exactly that status.
C2_SuccessOnlyOnDocumentedStatus ==
    op \in MutateOps =>
      LET rs == MutateResponses
          ok == DocumentedSuccess(op)
      IN /\ \A i \in 1..Len(rs) :
              rs[i].status # ok =>
                /\ i = Len(rs)
                /\ Finished /\ result = "raised"
                /\ exc = [type |-> "FabricHTTPException", status |-> rs[i].status]
         /\ Len(RequestConfirmations) =
              IF op \in CreateConnectionOps THEN 0
              ELSE Cardinality({i \in 1..Len(rs) : rs[i].status = ok})
         /\ (Finished /\ result = "returned" /\ op # "export_model_to_onelake")
              => Len(rs) = 1 /\ rs[1].status = ok

\* C2's case: delete_connection answered 201, a 2xx status that is not its own.
C2_Witness ==
    /\ op = "delete_connection" /\ Finished
    /\ Len(MutateResponses) = 1 /\ MutateResponses[1].status = 201
    /\ result = "raised"

\* The items of every page the server holds, in order.
AllItems == Flatten(pages)

\* C3: a list operation that returns has consumed every page: its dataframe has
\* exactly one row per item of the concatenation of the pages' value arrays, in order.
C3_OneRowPerItemOfEveryPage ==
    (op \in ListOps /\ Finished /\ result = "returned")
    => /\ Len(df.rows) = Len(AllItems)
       /\ \A j \in 1..Len(df.rows) :
            \/ (op = "list_connections" /\ df.rows[j]["Connection Id"] = AllItems[j].id)
            \/ (op = "list_connection_role_assignments"
                /\ df.rows[j]["Connection Role Assignment Id"] = AllItems[j].id)

\* The run id the specification prescribes for a results table.
PrescribedRunId(t) ==
    IF ~t.exists THEN 1
    ELSE (CHOOSE m \in {t.rows[i] : i \in 1..Len(t.rows)} :
            \A i \in 1..Len(t.rows) : t.rows[i] <= m) + 1

BulkBeforeRunId == pc \in {"idle", "DetermineRunId"}

C5_RunIdsIncrease ==
    (op = "vertipaq_analyzer_bulk" /\ runId # 0)
    => \A r \in tagged : runId > r

\* The specification's exclusion rule for a dataset of a workspace.
Excluded(w, d) ==
    \/ d = "ModelBPA"
    \/ /\ <<d, "SemanticModel">> \in w.items
       /\ (<<d, "Lakehouse">> \in w.items \/ <<d, "Warehouse">> \in w.items)

\* The datasets of workspace w the invocation has sent to the analyzer, in order.
AnalysedIn(w) ==
    LET mine == SelectSeq(analysed, LAMBDA a : a[1] = w.Name)
    IN [i \in 1..Len(mine) |-> mine[i][2]]

\* The loop over the datasets of the k-th workspace is over.
WorkspaceDone(k) ==
    \/ k < wIdx
    \/ k = wIdx /\ \/ pc \in {"AppendResults", "Complete"}
                   \/ Finished /\ exc.type \in {"none", "KeyError", "NameError"}

C7_AllOrNothing ==
    (Finished /\ result = "raised") => (created = <<>> /\ Confirmations = <<>>)

\* What export_model_to_onelake leaves behind when it raises: nothing when the
\* export itself failed; otherwise the executed and confirmed export followed by
\* the shortcuts created before the failure, each of them confirmed.
ExportRaisedPartway ==
    \/ exc.type = "TmslError" /\ created = <<>> /\ printed = <<>>
    \/ /\ exc.type \in {"ValueError", "FabricHTTPException"}
       /\ created = <<"delta_export">> \o [i \in 1..(Len(created) - 1) |-> "create_shortcut"]
       /\ printed = <<[msg |-> "exported"]>>
                      \o [i \in 1..(Len(created) - 1) |-> [msg |-> "shortcut_created"]]

\* C7 (amended): an invocation of any operation but export_model_to_onelake that
\* ends in an exception has carried out no remote mutation and printed no success
\* confirmation, and vertipaq_analyzer_bulk never changes the results table;
\* export_model_to_onelake may raise after the delta export and after shortcuts
\* of earlier tables: what it created before the failure stays, each confirmed.
C7_AllOrNothingButExport ==
    /\ []((Finished /\ result = "raised") =>
            IF op = "export_model_to_onelake" THEN ExportRaisedPartway
            ELSE created = <<>> /\ Confirmations = <<>>)
    /\ [][op = "vertipaq_analyzer_bulk" => lake' = lake]_vars

\* C7's case: the export raised on a shortcut request after an earlier shortcut was created.
C7_Witness ==
    /\ op = "export_model_to_onelake" /\ Finished /\ result = "raised"
    /\ exc.type = "FabricHTTPException"
    /\ Len(created) = 2

\* The values the specification allows.
AllowedCredentialTypes ==
    {"Anonymous", "Basic", "Key", "OAuth2", "ServicePrincipal", "SharedAccessSignature",
     "Windows", "WindowsWithoutImpersonation", "WorkspaceIdentity"}

AllowedConnectivityTypes ==
    {"ShareableCloud", "OnPremisesDataGateway", "VirtualNetworkDataGateway"}

\* C8: a create_connection_* call whose credential type or connectivity type is
\* outside the allowed set fails locally: it raises and nothing has been posted.
C8_CreateConnectionValidates ==
    (/\ op \in CreateConnectionOps
     /\ Finished
     /\ \/ args.credential_type \notin AllowedCredentialTypes
        \/ args.connectivity_type \notin AllowedConnectivityTypes)
    => (result = "raised" /\ http = <<>> /\ sent = <<>>)

\* The part of a create-connection body the three operations share, from the
\* arguments they share.
DocumentedCommonBody(a) ==
    [connectivityType |-> a.connectivity_type,
     name |-> a.connection_name,
     connectionDetails |->
        [type |-> "SQL",
         parameters |-> << [name |-> "server", value |-> a.server_name],
                           [name |-> "database", value |-> a.database_name] >>],
     privacyLevel |-> a.privacy_level]

DocumentedCredentialDetails(a) ==
    [singleSignOnType |-> a.single_sign_on_type,
     connectionEncryption |-> a.encryption,
     skipTestConnection |-> FALSE]

Restrict(f, keys) == [k \in keys |-> f[k]]

\* C9: the body posted by a create_connection_* call is determined by the
\* arguments: connectivityType, name, connectionDetails (type SQL, the server and
\* database parameters in that order), privacyLevel and credentialDetails with
\* skipTestConnection false, the single sign-on type and the encryption as passed
\* (or defaulted) and the credential type; the three bodies differ only by
\* gatewayId (on-premises and virtual network) and by the shape of credentials:
\* username and password, or for on-premises the gateway's encrypted values.
C9_ConnectionBodyFromArguments ==
    (op \in CreateConnectionOps /\ Finished) =>
      /\ Len(sent) = 1
      /\ LET b == sent[1]
             common == DOMAIN DocumentedCommonBody(args)
             cd == b.credentialDetails
         IN /\ DOMAIN b = common \cup {"credentialDetails"}
                            \cup (IF op = "create_connection_cloud" THEN {}
                                  ELSE {"gatewayId"})
            /\ Restrict(b, common) = DocumentedCommonBody(args)
            /\ op # "create_connection_cloud" => b.gatewayId = args.gateway_id
            /\ DOMAIN cd = DOMAIN DocumentedCredentialDetails(args) \cup {"credentials"}
            /\ Restrict(cd, DOMAIN DocumentedCredentialDetails(args))
                 = DocumentedCredentialDetails(args)
            /\ cd.credentials.credentialType = args.credential_type
            /\ IF op = "create_connection_on_prem"
               THEN cd.credentials =
                      [credentialType |-> args.credential_type,
                       values |-> << [gatewayId |-> args.gateway_id,
                                      credentials |-> args.credentials] >>]
               ELSE cd.credentials =
                      [credentialType |-> args.credential_type,
                       username |-> args.user_name,
                       password |-> args.password]

\* C9's case: an on-premises connection with the single sign-on type overridden.
C9_Witness ==
    /\ op = "create_connection_on_prem" /\ Finished /\ result = "returned"
    /\ args.single_sign_on_type = "Kerberos"
    /\ sent[1].gatewayId = "g1"

\* ---- the reader's side: base64.b64decode, bytes.decode("utf-8"), json.loads

B64Val(c) ==
    IF c >= 97 THEN c - 71
    ELSE IF c >= 65 THEN c - 65
    ELSE IF c = 61 THEN 0
    ELSE IF c >= 48 THEN c + 4
    ELSE IF c = 43 THEN 62 ELSE 63

b64decode(chars) ==
    LET n == Len(chars)
        pad == IF n = 0 THEN 0
               ELSE IF chars[n - 1] = 61 THEN 2
               ELSE IF chars[n] = 61 THEN 1 ELSE 0
        group(g) == B64Val(chars[4 * g + 1]) * 262144 + B64Val(chars[4 * g + 2]) * 4096
                    + B64Val(chars[4 * g + 3]) * 64 + B64Val(chars[4 * g + 4])
        byte(i) ==
            LET g == (i - 1) \div 3
                k == (i - 1) % 3
            IN CASE k = 0 -> group(g) \div 65536
                 [] k = 1 -> (group(g) \div 256) % 256
                 [] k = 2 -> group(g) % 256
    IN [i \in 1..(3 * (n \div 4) - pad) |-> byte(i)]

Utf8Decode(bytes) ==
    LET n == Len(bytes)
        starts == SelectSeq([i \in 1..n |-> i],
                            LAMBDA i : bytes[i] < 128 \/ bytes[i] >= 192)
        cont(i) == bytes[i] % 64
        char(i) ==
            IF bytes[i] < 128 THEN bytes[i]
            ELSE IF bytes[i] < 224 THEN (bytes[i] % 32) * 64 + cont(i + 1)
            ELSE IF bytes[i] < 240
            THEN (bytes[i] % 16) * 4096 + cont(i + 1) * 64 + cont(i + 2)
            ELSE (bytes[i] % 8) * 262144 + cont(i + 1) * 4096 + cont(i + 2) * 64
                 + cont(i + 3)
    IN [k \in 1..Len(starts) |-> char(starts[k])]

Failure == [ok |-> FALSE, v |-> <<>>, i |-> 0]

Parsed(v, i) == [ok |-> TRUE, v |-> v, i |-> i]

HexVal(c) == IF c >= 97 THEN c - 87 ELSE IF c >= 65 THEN c - 55 ELSE c - 48

Hex4(s, i) ==
    HexVal(s[i]) * 4096 + HexVal(s[i + 1]) * 256 + HexVal(s[i + 2]) * 16 + HexVal(s[i + 3])

RECURSIVE SkipWs(_, _)
SkipWs(s, i) ==
    IF i <= Len(s) /\ s[i] \in {32, 10, 13, 9} THEN SkipWs(s, i + 1) ELSE i

\* The index of the first quote or backslash of s at or after i (0: none).
NextSpecial(s, i) ==
    IF \E j \in i..Len(s) : s[j] \in {34, 92}
    THEN CHOOSE j \in i..Len(s) :
           s[j] \in {34, 92} /\ \A m \in i..(j - 1) : s[m] \notin {34, 92}
    ELSE 0

\* The characters of a JSON string, from index i (past the opening quote):
\* a run of plain characters, then the closing quote or an escape.
RECURSIVE ParseChars(_, _, _)
ParseChars(s, i, acc) ==
    LET p == NextSpecial(s, i)
        run == IF p = 0 THEN acc ELSE acc \o SubSeq(s, i, p - 1)
    IN IF p = 0 THEN Failure
       ELSE IF s[p] = 34 THEN Parsed(run, p + 1)
       ELSE IF p + 1 > Len(s) THEN Failure
       ELSE LET e == s[p + 1]
            IN CASE e \in {34, 92, 47} -> ParseChars(s, p + 2, Append(run, e))
                 [] e = 110 -> ParseChars(s, p + 2, Append(run, 10))
                 [] e = 114 -> ParseChars(s, p + 2, Append(run, 13))
                 [] e = 116 -> ParseChars(s, p + 2, Append(run, 9))
                 [] e = 98 -> ParseChars(s, p + 2, Append(run, 8))
                 [] e = 102 -> ParseChars(s, p + 2, Append(run, 12))
                 [] e = 117 /\ p + 5 <= Len(s) ->
                       LET u == Hex4(s, p + 2)
                           paired == /\ u >= 55296 /\ u <= 56319
                                     /\ p + 11 <= Len(s)
                                     /\ s[p + 6] = 92 /\ s[p + 7] = 117
                                     /\ Hex4(s, p + 8) >= 56320 /\ Hex4(s, p + 8) <= 57343
                       IN IF paired
                          THEN ParseChars(s, p + 12,
                                   Append(run, 65536 + (u - 55296) * 1024
                                               + (Hex4(s, p + 8) - 56320)))
                          ELSE ParseChars(s, p + 6, Append(run, u))
                 [] OTHER -> Failure

Matches(s, i, word) ==
    i + Len(word) - 1 <= Len(s) /\ SubSeq(s, i, i + Len(word) - 1) = word

RECURSIVE ParseValue(_, _), ParseMembers(_, _, _), ParseElements(_, _, _)
ParseValue(s, i0) ==
    LET i == SkipWs(s, i0)
    IN IF i > Len(s) THEN Failure
       ELSE CASE s[i] = 34 ->
                    LET r == ParseChars(s, i + 1, <<>>)
                    IN IF r.ok THEN Parsed(JStr(r.v), r.i) ELSE Failure
              [] s[i] = 123 ->
                    LET j == SkipWs(s, i + 1)
                    IN IF j <= Len(s) /\ s[j] = 125 THEN Parsed(JObj(<<>>), j + 1)
                       ELSE ParseMembers(s, j, <<>>)
              [] s[i] = 91 ->
                    LET j == SkipWs(s, i + 1)
                    IN IF j <= Len(s) /\ s[j] = 93 THEN Parsed(JList(<<>>), j + 1)
                       ELSE ParseElements(s, j, <<>>)
              [] Matches(s, i, Text("true")) -> Parsed(JBool(TRUE), i + 4)
              [] Matches(s, i, Text("false")) -> Parsed(JBool(FALSE), i + 5)
              [] Matches(s, i, Text("null")) -> Parsed(JNull, i + 4)
              [] OTHER -> Failure

ParseMembers(s, i, acc) ==
    LET k == IF i <= Len(s) /\ s[i] = 34 THEN ParseChars(s, i + 1, <<>>) ELSE Failure
        c == SkipWs(s, k.i)
        val == IF k.ok /\ c <= Len(s) /\ s[c] = 58 THEN ParseValue(s, c + 1) ELSE Failure
        d == SkipWs(s, val.i)
        members == Append(acc, <<k.v, val.v>>)
    IN IF ~val.ok \/ d > Len(s) THEN Failure
       ELSE IF s[d] = 125 THEN Parsed(JObj(members), d + 1)
       ELSE IF s[d] = 44 THEN ParseMembers(s, SkipWs(s, d + 1), members)
       ELSE Failure

ParseElements(s, i, acc) ==
    LET val == ParseValue(s, i)
        d == SkipWs(s, val.i)
        elements == Append(acc, val.v)
    IN IF ~val.ok \/ d > Len(s) THEN Failure
       ELSE IF s[d] = 93 THEN Parsed(JList(elements), d + 1)
       ELSE IF s[d] = 44 THEN ParseElements(s, d + 1, elements)
       ELSE Failure

\* json.loads
Loads(s) ==
    LET r == ParseValue(s, 1)
    IN IF r.ok /\ SkipWs(s, r.i) = Len(s) + 1 THEN r.v
       ELSE [t |-> "error", v |-> <<>>]

\* obj[key] of a parsed object
Member(obj, key) ==
    obj.v[CHOOSE i \in 1..Len(obj.v) : obj.v[i][1] = key][2]

HasMember(obj, key) ==
    obj.t = "obj" /\ \E i \in 1..Len(obj.v) : obj.v[i][1] = key

\* the object without its member `key`
Without(obj, key) == JObj(SelectSeq(obj.v, LAMBDA m : m[1] # key))

\* Equality of JSON values (values of different types are never compared
\* directly: their serialisations are).
JsonEq(x, y) == x.t = y.t /\ x.t # "error" /\ Dumps(x) = Dumps(y)

\* The envelope a reader recovers from the definition part of a create_dataflow request.
RecoveredEnvelope == Loads(Utf8Decode(b64decode(sent[1].definition.parts[1].payload)))

\* C10: the request of create_dataflow carries exactly one definition part, at
\* path dataflow-content.json, whose payload, base64-decoded, read as UTF-8 and
\* parsed as JSON, is an object whose editingSessionMashup.mashupDocument is the
\* caller's document, character for character, and whose other fields are the
\* envelope's constants, whatever the document.
C10_EnvelopeRoundTrip ==
    (op = "create_dataflow" /\ Finished) =>
      /\ Len(sent) = 1
      /\ Len(sent[1].definition.parts) = 1
      /\ sent[1].definition.parts[1].path = "dataflow-content.json"
      /\ LET env == RecoveredEnvelope
             esm == Text("editingSessionMashup")
             doc == Text("mashupDocument")
             blank == Member(dataflow_def_payload(<<>>), esm)
         IN /\ env.t = "obj" /\ Len(env.v) = 1
            /\ HasMember(env, esm)
            /\ HasMember(Member(env, esm), doc)
            /\ Member(Member(env, esm), doc).t = "str"
            /\ Member(Member(env, esm), doc).v = args.mashup_document
            /\ JsonEq(Without(Member(env, esm), doc), Without(blank, doc))

\* C10's case: a document with a quote, a backslash-free non-ASCII letter and
\* nothing else: both must survive escaping, UTF-8 and base64.
C10_Witness ==
    /\ op = "create_dataflow" /\ Finished
    /\ args.mashup_document = << 233, 34 >>
    /\ Member(Member(RecoveredEnvelope, Text("editingSessionMashup")),
              Text("mashupDocument")).v = << 233, 34 >>

\* The position of a phase in the specification's state machine.
PhaseRank(p) ==
    CASE p = "DetermineRunId" -> 1
      [] p = "EnumerateWorkspaces" -> 2
      [] p = "EnumerateDatasets" -> 3
      [] p = "FilterDefaultModels" -> 4
      [] p = "AnalyzeEachDataset" -> 5
      [] p = "AppendResults" -> 6
      [] p = "Complete" -> 7

Phases ==
    {"DetermineRunId", "EnumerateWorkspaces", "EnumerateDatasets",
     "FilterDefaultModels", "AnalyzeEachDataset", "AppendResults", "Complete"}

\* The invocation never goes back to an earlier phase, but from a workspace to
\* the first phase of the next workspace.
PhasesInOrder ==
    (op = "vertipaq_analyzer_bulk" /\ pc \in Phases /\ pc' \in Phases)
    => \/ PhaseRank(pc') >= PhaseRank(pc)
       \/ pc' = "EnumerateDatasets" /\ wIdx' = wIdx + 1

\* The invocation reached Done: line 152 was executed and the function returned.
BulkDone ==
    /\ Finished /\ result = "returned"
    /\ printed # <<>> /\ printed[Len(printed)] = [msg |-> "scan_complete"]

\* C11: vertipaq_analyzer_bulk moves through its phases in the order
\* DetermineRunId, EnumerateWorkspaces, then per selected workspace
\* EnumerateDatasets, FilterDefaultModels, AnalyzeEachDataset, AppendResults,
\* never going back; and with a lakehouse attached, whatever the selected
\* workspaces and their datasets, the invocation ends, and ends in Done.
C11_LinearPhasesReachDone ==
    /\ [][PhasesInOrder]_vars
    /\ []((op = "vertipaq_analyzer_bulk" /\ Finished /\ args.lakehouse_attached)
            => BulkDone)
    /\ (op = "vertipaq_analyzer_bulk" /\ pc \in Phases) ~> Finished

\* The datasets of workspace w the specification wants analysed, in listing order.
ToAnalyse(w) == SelectSeq(w.datasets, LAMBDA d : ~Excluded(w, d))

\* The failure of the analysis of dataset d of workspace w was logged.
FailureLogged(w, d) ==
    \E i \in 1..Len(printed) :
      printed[i] = [msg |-> "failed", dataset |-> d, workspace |-> w]

SomeFailureLogged == \E i \in 1..Len(printed) : printed[i].msg = "failed"

\* The number of rows of the results table that carry run id r.
RowsOfRun(r) == Len(SelectSeq(lake.rows, LAMBDA x : x = r))

\* C12: when the analysis of a dataset fails in vertipaq_analyzer_bulk, the
\* failure is logged with the dataset and workspace name and skipped: by the end
\* of the invocation every dataset sent to the analyzer that failed is logged,
\* every non-excluded dataset of every selected workspace has been sent to the
\* analyzer, and the rows the analyzer did return are in the results table.
C12_FailedDatasetIsSkipped ==
    (op = "vertipaq_analyzer_bulk" /\ Finished /\ SomeFailureLogged)
    => /\ \A i \in 1..Len(analysed) :
            (\A j \in 1..Len(frames) :
               <<frames[j].Workspace, frames[j].Dataset>> # analysed[i])
            => FailureLogged(analysed[i][1], analysed[i][2])
       /\ \A k \in 1..Len(dfW_filt) :
            AnalysedIn(dfW_filt[k]) = ToAnalyse(dfW_filt[k])
       /\ RowsOfRun(runId) >= Len(frames)

\* The run ids of the rows collected for workspace w, one per frame.
WorkspaceRows(w) ==
    LET mine == SelectSeq(frames, LAMBDA z : z.Workspace = w.Name)
    IN [i \in 1..Len(mine) |-> mine[i].RunId]

IsPrefix(s, t) == Len(s) <= Len(t) /\ \A i \in 1..Len(s) : s[i] = t[i]

\* C13: in vertipaq_analyzer_bulk the rows collected for a workspace with a
\* dataset to analyse are appended to the results table in one step, the one that
\* follows the workspace's last dataset and precedes the next workspace; the table
\* changes at no other step, and the rows it held stay as they were.
C13_OneAppendPerWorkspace ==
    /\ [][InBulk("AppendResults")
            => /\ lake'.exists
               /\ lake'.rows = lake.rows \o WorkspaceRows(dfW_filt[wIdx])
               /\ result' # "raised"]_vars
    /\ [][(op = "vertipaq_analyzer_bulk" /\ pc # "AppendResults") => lake' = lake]_vars
    /\ [][op = "vertipaq_analyzer_bulk" => IsPrefix(lake.rows, lake'.rows)]_vars

\* The columns a list operation declares for its table.
DeclaredColumns(o) ==
    IF o = "list_connections"
    THEN << "Connection Id", "Connection Name", "Gateway Id", "Connectivity Type",
            "Connection Path", "Connection Type", "Privacy Level", "Credential Type",
            "Single Sign on Type", "Connection Encyrption", "Skip Test Connection" >>
    ELSE << "Connection Role Assignment Id", "Principal Id", "Principal Type", "Role" >>

\* Field k of the object under key `inner` of item i, None when either is missing.
Field(i, inner, k) == Get(Get(i, inner, EmptyDict), k, "None")

\* Row r of a list operation's table is filled from the fields of item i.
FilledFrom(o, r, i) ==
    IF o = "list_connections"
    THEN /\ r["Connection Id"] = Get(i, "id", "None")
         /\ r["Connection Name"] = Get(i, "displayName", "None")
         /\ r["Gateway Id"] = Get(i, "gatewayId", "None")
         /\ r["Connection Path"] = Field(i, "connectionDetails", "path")
         /\ r["Credential Type"] = Field(i, "credentialDetails", "credentialType")
         /\ r["Single Sign on Type"] = Field(i, "credentialDetails", "singleSignOnType")
         /\ r["Connection Encyrption"]
              = Field(i, "credentialDetails", "connectionEncryption")
    ELSE /\ r["Connection Role Assignment Id"] = Get(i, "id", "None")
         /\ r["Principal Id"] = Field(i, "principal", "id")
         /\ r["Principal Type"] = Field(i, "principal", "type")
         /\ r["Role"] = Get(i, "role", "None")

\* C14: the table a list operation returns has the declared columns, in the
\* declared order, whether the server returned no item or several (eleven columns
\* for list_connections, four for list_connection_role_assignments), and each
\* row has exactly these columns, filled from the matching fields of its item.
C14_FixedColumns ==
    (op \in ListOps /\ Finished /\ result = "returned")
    => /\ df.columns = DeclaredColumns(op)
       /\ \A j \in 1..Len(df.rows) :
            /\ DOMAIN df.rows[j] = {df.columns[k] : k \in 1..Len(df.columns)}
            /\ FilledFrom(op, df.rows[j], AllItems[j])

\* A table the export writes as a delta table: not a calculation group, not
\* system managed, every partition in Import mode, at least one column.
Exportable(t) ==
    /\ t.CalculationGroup = "None"
    /\ ~t.SystemManaged
    /\ t.AllImport
    /\ t.Columns >= 1

\* The tables the shortcut requests issued so far point at, in order.
ShortcutTargets == [i \in 1..Len(sent) |-> sent[i].target.oneLake.path[2]]

TableNames(ts) == [i \in 1..Len(ts) |-> ts[i].Name]

ExportReturned == op = "export_model_to_onelake" /\ Finished /\ result = "returned"

====
